---- MODULE Spec2Model ----
(***************************************************************************)
(* Model of the two request scripts of webapi/_test_data/test_route:       *)
(*   script 1: create-thing.py                                             *)
(*   script 2: texts/createBEOLTEIMapping.py                               *)
(* A run is one execution of one script, statement by statement.  The     *)
(* environment (server, proxy, file system, keyboard) is chosen with \E.   *)
(* Texts are sequences of tokens; JSON is modelled as its token sequence.  *)
(***************************************************************************)
EXTENDS Integers, Sequences, FiniteSets, TLC

VARIABLES script, pc, params, xml, props, mappingParams, callArgs, file,
          r, exc, e, out, posts, exit

vars == <<script, pc, params, xml, props, mappingParams, callArgs, file,
          r, exc, e, out, posts, exit>>

(* ------------------------------ bounds --------------------------------- *)

MaxBodyLen == 2

BodyAlphabet == {"a", "b"}

RECURSIVE SeqsUpTo(_)
SeqsUpTo(n) ==
    IF n = 0 THEN {<<>>}
    ELSE LET S == SeqsUpTo(n - 1)
         IN  S \cup {Append(s, c) : s \in {t \in S : Len(t) = n - 1}, c \in BodyAlphabet}

Bodies == SeqsUpTo(MaxBodyLen)

\* status codes a server can answer with: 2xx, a 3xx that is not followed
\* (304, or no Location header), 4xx, 5xx
Statuses == {200, 201, 304, 404, 500}

StatusStr(s) ==
    CASE s = 200 -> "200" [] s = 201 -> "201" [] s = 304 -> "304"
      [] s = 404 -> "404" [] s = 500 -> "500" [] OTHER -> "?"

Is2xx(s) == 200 <= s /\ s < 300

Is4xx5xx(s) == 400 <= s /\ s < 600

(* --------------------------- literal data ------------------------------ *)

base_url == "http://localhost/v1/"

Url1 == <<base_url, "resources">>

Url2 == <<"http://localhost:3333/v2/mapping">>

\* a dict is a sequence (insertion order) of [k, v]; v is the token sequence
\* of the JSON value
ParamsFirst ==
    << [k |-> "_link",
        v |-> <<"[", "{", "\"start\"", ":", "0", ",", "\"end\"", ":", "4", ",",
                "\"resid\"", ":", "\"http://data.knora.org/9935159f67\"", ",",
                "\"href\"", ":", "\"http://data.knora.org/9935159f67\"", "}", ",",
                "{", "\"start\"", ":", "5", ",", "\"end\"", ":", "7", ",",
                "\"href\"", ":", "\"http://www.google.ch\"", "}", "]">>],
       [k |-> "bold",
        v |-> <<"[", "{", "\"start\"", ":", "9", ",", "\"end\"", ":", "11", "}", ",",
                "{", "\"start\"", ":", "16", ",", "\"end\"", ":", "18", "}", "]">>] >>

XmlLiteral == <<"\"<?xml ...><text>...links to a thing</text>\"">>

DiagLine == <<"Knora API answered with an error:", "\n">>

(* ------------------------------ json.dumps ----------------------------- *)

Quote(k) == <<"\"", k, "\"">>

RECURSIVE DumpsItems(_)
DumpsItems(d) ==
    IF d = <<>> THEN <<>>
    ELSE Quote(d[1].k) \o <<":">> \o d[1].v
         \o (IF Len(d) > 1 THEN <<",">> ELSE <<>>) \o DumpsItems(Tail(d))

Dumps(d) == <<"{">> \o DumpsItems(d) \o <<"}">>

ParamsSecond(x) ==
    << [k |-> "restype_id", v |-> <<"\"http://www.knora.org/ontology/anything#Thing\"">>],
       [k |-> "label",      v |-> <<"\"A thing to test with\"">>],
       [k |-> "project_id", v |-> <<"\"http://data.knora.org/projects/anything\"">>],
       [k |-> "properties",
        v |-> Dumps(<<
          [k |-> "http://www.knora.org/ontology/anything#hasText",
           v |-> <<"[">>
                 \o Dumps(<< [k |-> "richtext_value",
                              v |-> Dumps(<< [k |-> "xml", v |-> x],
                                             [k |-> "mapping_id",
                                              v |-> <<"\"http://data.knora.org/projects/standoff/mappings/StandardMapping\"">>] >>)] >>)
                 \o <<"]">>],
          [k |-> "http://www.knora.org/ontology/anything#hasInteger",
           v |-> <<"[">> \o Dumps(<< [k |-> "int_value", v |-> <<"12345">>] >>) \o <<"]">>] >>)] >>

MappingParamsLiteral ==
    << [k |-> "http://api.knora.org/ontology/knora-api/v2#mappingHasName",
        v |-> <<"\"BEOLTEIMapping\"">>],
       [k |-> "http://api.knora.org/ontology/knora-api/v2#attachedToProject",
        v |-> <<"\"http://rdfh.ch/projects/yTerZGyxjZVqFMNNKXCDPF\"">>],
       [k |-> "http://www.w3.org/2000/01/rdf-schema#label",
        v |-> <<"\"TEI mapping\"">>] >>

\* reading the wire form back: nesting depth of position i, and the keys
\* found at depth 1 (a quoted token run closed right before a ":")
Opens == {"{", "["}

Closes == {"}", "]"}

Depth(t, i) ==
    Cardinality({j \in 1..(i - 1) : t[j] \in Opens})
  - Cardinality({j \in 1..(i - 1) : t[j] \in Closes})

TopLevelKeys(t) ==
    {t[i] : i \in {j \in 2..(Len(t) - 3) :
                     /\ Depth(t, j) = 1
                     /\ t[j - 1] = "\"" /\ t[j + 1] = "\"" /\ t[j + 2] = ":"}}

Tokens(t) == {t[i] : i \in 1..Len(t)}

(* --------------------------- run-time values --------------------------- *)

NoResponse == [bound |-> FALSE, status |-> 0, text |-> <<>>]

NoExc == [type |-> "none", text |-> <<>>]

Response(s, b) == [bound |-> TRUE, status |-> s, text |-> b]

\* variant: every status other than 200 is treated as a client error
HttpErrorMsg_Not200(s, url) ==
    IF 200 < s /\ s < 500 THEN <<StatusStr(s), "Client Error", "for url:">> \o url
    ELSE IF 500 <= s /\ s < 600 THEN <<StatusStr(s), "Server Error", "for url:">> \o url
    ELSE <<>>

\* requests.Response.raise_for_status: the message is set for 4xx and 5xx only
HttpErrorMsg(s, url) ==
    IF 400 <= s /\ s < 500 THEN <<StatusStr(s), "Client Error", "for url:">> \o url
    ELSE IF 500 <= s /\ s < 600 THEN <<StatusStr(s), "Server Error", "for url:">> \o url
    ELSE <<>>

HTTPError(s, url) == [type |-> "HTTPError", text |-> HttpErrorMsg(s, url)]

ConnectionError == [type |-> "ConnectionError", text |-> <<"Connection refused">>]

KeyboardInterrupt == [type |-> "KeyboardInterrupt", text |-> <<>>]

FileNotFoundError ==
    [type |-> "FileNotFoundError",
     text |-> <<"No such file or directory:", "../../../src/main/resources/BEOLTEImapping.xml">>]

NameError == [type |-> "NameError", text |-> <<"name 'r' is not defined">>]

\* what the blocking call can raise: a transport failure, or an interruption
PostFailures == {ConnectionError, KeyboardInterrupt}

\* Python's class hierarchy: KeyboardInterrupt derives from BaseException only
IsExceptionSubclass(t) == t # "KeyboardInterrupt"

\* variant: script 1 with a bare except
Catches1_Bare(t) == TRUE

\* script 1: "except Exception as e"
Catches1(t) == IsExceptionSubclass(t)

\* script 2: bare "except:"
Catches2(t) == TRUE

Traceback(x) == <<"Traceback (most recent call last):", x.type>> \o x.text

Printed(stream, site, what, text) ==
    [stream |-> stream, site |-> site, what |-> what, text |-> text]

\* variant: a caught failure sends the request again
Raise1_Retry(x) ==
    /\ exc' = x
    /\ IF Catches1(x.type)
       THEN pc' = "t1_post" /\ e' = x
       ELSE pc' = "uncaught" /\ e' = e

\* where control goes when x is raised inside the try block
Raise1(x) ==
    /\ exc' = x
    /\ IF Catches1(x.type)
       THEN pc' = "h1_diag" /\ e' = x
       ELSE pc' = "uncaught" /\ e' = e

Raise2(x) ==
    /\ exc' = x
    /\ e' = e
    /\ IF Catches2(x.type) THEN pc' = "h2_tb" ELSE pc' = "uncaught"

(* ------------------------------- Init ---------------------------------- *)

Init ==
    /\ script \in {1, 2}
    /\ pc = "start"
    /\ params = <<>>
    /\ xml = <<>>
    /\ props = <<>>
    /\ mappingParams = <<>>
    /\ callArgs = [data |-> <<>>, file |-> <<>>]
    /\ file \in [exists : BOOLEAN, content : {<<"<mapping/>">>}]
    /\ r = NoResponse
    /\ exc = NoExc
    /\ e = NoExc
    /\ out = <<>>
    /\ posts = <<>>
    /\ exit = -1

(* ----------------------- script 1: create-thing.py --------------------- *)

T1_BindParams1 ==
    /\ script = 1 /\ pc = "start"
    /\ params' = ParamsFirst
    /\ pc' = "t1_xml"
    /\ UNCHANGED <<script, xml, props, mappingParams, callArgs, file, r, exc, e, out, posts, exit>>

T1_BindXml ==
    /\ script = 1 /\ pc = "t1_xml"
    /\ xml' = XmlLiteral
    /\ pc' = "t1_params2"
    /\ UNCHANGED <<script, params, props, mappingParams, callArgs, file, r, exc, e, out, posts, exit>>

\* variant: the second literal is merged into params instead of replacing it
T1_BindParams2_Update ==
    /\ script = 1 /\ pc = "t1_params2"
    /\ params' = params \o ParamsSecond(xml)
    /\ pc' = "t1_dumps"
    /\ UNCHANGED <<script, xml, props, mappingParams, callArgs, file, r, exc, e, out, posts, exit>>

T1_BindParams2 ==
    /\ script = 1 /\ pc = "t1_params2"
    /\ params' = ParamsSecond(xml)
    /\ pc' = "t1_dumps"
    /\ UNCHANGED <<script, xml, props, mappingParams, callArgs, file, r, exc, e, out, posts, exit>>

T1_Dumps ==
    /\ script = 1 /\ pc = "t1_dumps"
    /\ props' = Dumps(params)
    /\ pc' = "t1_post"
    /\ UNCHANGED <<script, params, xml, mappingParams, callArgs, file, r, exc, e, out, posts, exit>>

T1_Post ==
    /\ script = 1 /\ pc = "t1_post"
    /\ posts' = Append(posts, [url |-> Url1, data |-> props, file |-> <<>>])
    /\ \/ \E s \in Statuses, b \in Bodies :
             /\ r' = Response(s, b)
             /\ pc' = "t1_check"
             /\ UNCHANGED <<exc, e>>
       \/ \E x \in PostFailures :
             /\ Raise1(x)
             /\ r' = r
    /\ UNCHANGED <<script, params, xml, props, mappingParams, callArgs, file, out, exit>>

\* variant: the body is printed before the status check, as script 2 does
T1_RaiseForStatus_PrintFirst ==
    /\ script = 1 /\ pc = "t1_check"
    /\ out' = Append(out, Printed("stdout", "try", "body", r.text))
    /\ IF HttpErrorMsg(r.status, Url1) # <<>>
       THEN Raise1(HTTPError(r.status, Url1))
       ELSE pc' = "t1_print" /\ UNCHANGED <<exc, e>>
    /\ UNCHANGED <<script, params, xml, props, mappingParams, callArgs, file, r, posts, exit>>

T1_RaiseForStatus ==
    /\ script = 1 /\ pc = "t1_check"
    /\ IF HttpErrorMsg(r.status, Url1) # <<>>
       THEN Raise1(HTTPError(r.status, Url1))
       ELSE pc' = "t1_print" /\ UNCHANGED <<exc, e>>
    /\ UNCHANGED <<script, params, xml, props, mappingParams, callArgs, file, r, out, posts, exit>>

T1_PrintBody ==
    /\ script = 1 /\ pc = "t1_print"
    /\ out' = Append(out, Printed("stdout", "try", "body", r.text))
    /\ pc' = "done"
    /\ exit' = 0
    /\ UNCHANGED <<script, params, xml, props, mappingParams, callArgs, file, r, exc, e, posts>>

H1_PrintDiag ==
    /\ script = 1 /\ pc = "h1_diag"
    /\ out' = Append(out, Printed("stdout", "handler", "diag", DiagLine))
    /\ pc' = "h1_exc"
    /\ UNCHANGED <<script, params, xml, props, mappingParams, callArgs, file, r, exc, e, posts, exit>>

H1_PrintExc ==
    /\ script = 1 /\ pc = "h1_exc"
    /\ out' = Append(out, Printed("stdout", "handler", "exc", e.text))
    /\ pc' = "h1_body"
    /\ UNCHANGED <<script, params, xml, props, mappingParams, callArgs, file, r, exc, e, posts, exit>>

\* variant: the handler leaves out the response body
H1_PrintBody_Omitted ==
    /\ script = 1 /\ pc = "h1_body"
    /\ pc' = "done"
    /\ exit' = 0
    /\ UNCHANGED <<script, params, xml, props, mappingParams, callArgs, file, r, exc, e, out, posts>>

\* line 62 reads r whether or not line 51 bound it; an exception raised
\* inside the handler is not handled by it
H1_PrintBody ==
    /\ script = 1 /\ pc = "h1_body"
    /\ IF r.bound
       THEN /\ out' = Append(out, Printed("stdout", "handler", "body", r.text))
            /\ pc' = "done"
            /\ exit' = 0
            /\ UNCHANGED exc
       ELSE /\ exc' = NameError
            /\ pc' = "uncaught"
            /\ UNCHANGED <<out, exit>>
    /\ UNCHANGED <<script, params, xml, props, mappingParams, callArgs, file, r, e, posts>>

\* the interpreter's treatment of an exception that leaves the script
Uncaught ==
    /\ pc = "uncaught"
    /\ out' = Append(out, Printed("stderr", "interpreter", "traceback", Traceback(exc)))
    /\ pc' = "done"
    /\ exit' = 1
    /\ UNCHANGED <<script, params, xml, props, mappingParams, callArgs, file, r, exc, e, posts>>

(* ------------------ script 2: createBEOLTEIMapping.py ------------------ *)

T2_BindParams ==
    /\ script = 2 /\ pc = "start"
    /\ mappingParams' = MappingParamsLiteral
    /\ pc' = "t2_args"
    /\ UNCHANGED <<script, params, xml, props, callArgs, file, r, exc, e, out, posts, exit>>

\* variant: the file is named but not opened while the arguments are built
T2_EvalArgs_NoOpen ==
    /\ script = 2 /\ pc = "t2_args"
    /\ callArgs' = [data |-> <<"json">> \o Dumps(mappingParams),
                    file |-> <<"xml", "BEOLTEImapping.xml">>]
    /\ pc' = "t2_post"
    /\ UNCHANGED <<script, params, xml, props, mappingParams, file, r, exc, e, out, posts, exit>>

\* the arguments of the call are evaluated before the call is made
T2_EvalArgs ==
    /\ script = 2 /\ pc = "t2_args"
    /\ IF file.exists
       THEN /\ callArgs' = [data |-> <<"json">> \o Dumps(mappingParams),
                            file |-> <<"xml", "BEOLTEImapping.xml">> \o file.content]
            /\ pc' = "t2_post"
            /\ UNCHANGED <<exc, e>>
       ELSE /\ Raise2(FileNotFoundError)
            /\ UNCHANGED callArgs
    /\ UNCHANGED <<script, params, xml, props, mappingParams, file, r, out, posts, exit>>

T2_Post ==
    /\ script = 2 /\ pc = "t2_post"
    /\ posts' = Append(posts, [url |-> Url2, data |-> callArgs.data, file |-> callArgs.file])
    /\ \/ \E s \in Statuses, b \in Bodies :
             /\ r' = Response(s, b)
             /\ pc' = "t2_print"
             /\ UNCHANGED <<exc, e>>
       \/ \E x \in PostFailures :
             /\ Raise2(x)
             /\ r' = r
    /\ UNCHANGED <<script, params, xml, props, mappingParams, callArgs, file, out, exit>>

\* variant: the body is printed for 2xx answers only
T2_PrintBody_Only2xx ==
    /\ script = 2 /\ pc = "t2_print"
    /\ out' = IF Is2xx(r.status)
              THEN Append(out, Printed("stdout", "try", "body", r.text))
              ELSE out
    /\ pc' = "t2_check"
    /\ UNCHANGED <<script, params, xml, props, mappingParams, callArgs, file, r, exc, e, posts, exit>>

T2_PrintBody ==
    /\ script = 2 /\ pc = "t2_print"
    /\ out' = Append(out, Printed("stdout", "try", "body", r.text))
    /\ pc' = "t2_check"
    /\ UNCHANGED <<script, params, xml, props, mappingParams, callArgs, file, r, exc, e, posts, exit>>

T2_RaiseForStatus ==
    /\ script = 2 /\ pc = "t2_check"
    /\ IF HttpErrorMsg(r.status, Url2) # <<>>
       THEN Raise2(HTTPError(r.status, Url2)) /\ UNCHANGED exit
       ELSE pc' = "done" /\ exit' = 0 /\ UNCHANGED <<exc, e>>
    /\ UNCHANGED <<script, params, xml, props, mappingParams, callArgs, file, r, out, posts>>

\* traceback.print_exc() writes to standard error
H2_PrintExc ==
    /\ script = 2 /\ pc = "h2_tb"
    /\ out' = Append(out, Printed("stderr", "handler", "traceback", Traceback(exc)))
    /\ pc' = "done"
    /\ exit' = 0
    /\ UNCHANGED <<script, params, xml, props, mappingParams, callArgs, file, r, exc, e, posts>>

Next ==
    \/ T1_BindParams1 \/ T1_BindXml \/ T1_BindParams2 \/ T1_Dumps \/ T1_Post
    \/ T1_RaiseForStatus \/ T1_PrintBody
    \/ H1_PrintDiag \/ H1_PrintExc \/ H1_PrintBody \/ Uncaught
    \/ T2_BindParams \/ T2_EvalArgs \/ T2_Post \/ T2_PrintBody
    \/ T2_RaiseForStatus \/ H2_PrintExc

Spec == Init /\ [][Next]_vars

(* ------------------------------ properties ----------------------------- *)

Done == pc = "done"

OutIdx == 1..Len(out)

BodyPrints == {i \in OutIdx : out[i].what = "body"}

HandlerPrints == {i \in OutIdx : out[i].site = "handler"}

PrintedSuccess ==
    /\ \E i \in OutIdx : out[i].site = "try" /\ out[i].what = "body"
    /\ \A i \in OutIdx : out[i].site = "try"

PrintedFailure == HandlerPrints # {}

\* C1 (as stated): in create-thing.py a transport failure ends with the
\* diagnostic line and the exception detail printed, nothing else, no
\* exception leaving the script and a normal exit.
C1_TransportFailureSuppressed ==
    (script = 1 /\ Done /\ e.type = "ConnectionError") =>
        /\ out = << Printed("stdout", "handler", "diag", DiagLine),
                    Printed("stdout", "handler", "exc", ConnectionError.text) >>
        /\ exit = 0

\* C2 (as stated): a finished run of either script, whatever the server, the
\* transport or the file system did, has printed success or printed failure
\* (not both), and has exited normally.
C2_TwoOutcomesNormalExit ==
    (Done /\ exc.type # "KeyboardInterrupt") =>
        /\ exit = 0
        /\ PrintedSuccess # PrintedFailure
        /\ \A i \in OutIdx : out[i].site # "interpreter"

\* C3: in create-thing.py, once a 2xx response is bound, nothing but the
\* response body is ever printed, and the finished run's output is exactly
\* that body on standard output.
C3_SuccessPrintsOnlyBody ==
    (script = 1 /\ r.bound /\ Is2xx(r.status)) =>
        /\ \A i \in OutIdx : out[i] = Printed("stdout", "try", "body", r.text)
        /\ Done => out = << Printed("stdout", "try", "body", r.text) >>

C3_Witness ==
    /\ script = 1 /\ Done /\ r.bound /\ r.status = 201 /\ r.text = <<"a", "b">>
    /\ Len(out) = 1 /\ exit = 0

\* C4: on a 4xx/5xx answer the finished run has reported failure, exited
\* normally, and printed both the error and the response body; in
\* create-thing.py the output is the diagnostic line, the HTTPError text and
\* the body, in this order.
C4_HttpErrorReported ==
    (Done /\ r.bound /\ Is4xx5xx(r.status)) =>
        /\ exit = 0
        /\ PrintedFailure
        /\ script = 1 =>
             out = << Printed("stdout", "handler", "diag", DiagLine),
                      Printed("stdout", "handler", "exc", HttpErrorMsg(r.status, Url1)),
                      Printed("stdout", "handler", "body", r.text) >>
        /\ script = 2 =>
             /\ \E i \in OutIdx : out[i].what = "body" /\ out[i].text = r.text
             /\ \E i \in OutIdx : /\ out[i].what = "traceback"
                                  /\ out[i].text = Traceback(HTTPError(r.status, Url2))

C4_Witness ==
    /\ script = 1 /\ Done /\ r.bound /\ r.status = 500 /\ r.text = <<"b">>
    /\ Len(out) = 3 /\ e.type = "HTTPError"

\* C5: no step ever brings the number of POSTs above one, and once the POST
\* has been issued no step issues another or returns to the call.
C5_SinglePost ==
    [][ /\ Len(posts') <= 1
        /\ Len(posts) = 1 => (posts' = posts /\ pc' \notin {"t1_post", "t2_post"}) ]_vars

C5_Witness ==
    /\ Done /\ Len(posts) = 1 /\ exc.type = "ConnectionError" /\ HandlerPrints # {}

\* C6: in createBEOLTEIMapping.py with the XML file missing, no POST is
\* ever sent, and the finished run has printed the traceback of the failed
\* open() and exited normally.
C6_MissingFileReported ==
    (script = 2 /\ ~file.exists) =>
        /\ posts = <<>>
        /\ ~r.bound
        /\ Done =>
             /\ out = << Printed("stderr", "handler", "traceback", Traceback(FileNotFoundError)) >>
             /\ exit = 0

C6_Witness ==
    /\ script = 2 /\ ~file.exists /\ Done /\ Len(out) = 1
    /\ exc.type = "FileNotFoundError"

C8_BodyIsSecondBinding ==
    (script = 1 /\ posts # <<>>) =>
        /\ posts[1].data = props
        /\ TopLevelKeys(posts[1].data) = {"restype_id", "label", "project_id", "properties"}
        /\ Tokens(posts[1].data) \cap {ParamsFirst[i].k : i \in 1..Len(ParamsFirst)} = {}
        /\ \A i \in 1..Len(ParamsFirst) :
             \A j \in 1..Len(ParamsFirst[i].v) :
                ParamsFirst[i].v[j] \in {"\"start\"", "\"end\"", "\"resid\"", "\"href\""}
                   => ParamsFirst[i].v[j] \notin Tokens(posts[1].data)

C8_Witness ==
    /\ script = 1 /\ Len(posts) = 1 /\ pc = "t1_check"
    /\ "restype_id" \in TopLevelKeys(posts[1].data)
    /\ XmlLiteral[1] \in Tokens(posts[1].data)

C10_HandlerBreadth ==
    exc.type = "KeyboardInterrupt" =>
        /\ script = 2 =>
             /\ pc \in {"h2_tb", "done"}
             /\ Done => /\ exit = 0
                        /\ out = << Printed("stderr", "handler", "traceback",
                                            Traceback(KeyboardInterrupt)) >>
        /\ script = 1 =>
             /\ pc \in {"uncaught", "done"}
             /\ HandlerPrints = {}
             /\ e = NoExc
             /\ Done => /\ exit = 1
                        /\ out = << Printed("stderr", "interpreter", "traceback",
                                            Traceback(KeyboardInterrupt)) >>

C10_Witness ==
    /\ script = 1 /\ Done /\ exc.type = "KeyboardInterrupt" /\ exit = 1
    /\ Len(posts) = 1 /\ ~r.bound

====
